---- MODULE Spec2Model ----
(***************************************************************************)
(* Model of app.py, the Streamlit dashboard "Peru Tmin Analysis 2024".     *)
(*                                                                         *)
(* The program is a script that Streamlit runs from top to bottom once per *)
(* page load and once more after every widget interaction.  Its state is   *)
(* the files on disk, the process-wide st.cache_data entry of load_data,   *)
(* the slider's widget state and the page the last run rendered.           *)
(*                                                                         *)
(* Numbers.  A cell of a numeric column is NaN (the empty tuple) or <<v>>. *)
(* Temperatures read from the CSV are whole degrees; every derived number  *)
(* shown with two decimals (f"{x:.2f}", .round(2)) is kept in hundredths   *)
(* of a degree, so the rounding the code performs is performed here too.   *)
(***************************************************************************)
EXTENDS Integers, Sequences, FiniteSets, TLC

VARIABLES disk, paths, cache, widget, data, df_filtered, page, event

vars == <<disk, paths, cache, widget, data, df_filtered, page, event>>

(***************************************************************************)
(* Bounds of the model.                                                    *)
(***************************************************************************)
\* Largest number of rows of a MainTable drawn in InitRender.
MaxRows == 2

(***************************************************************************)
(* Cells, rows, tables.                                                    *)
(***************************************************************************)
NaN == <<>>

Num(v) == <<v>>

IsNaN(c) == c = NaN

Val(c) == c[1]

\* Temperatures (degrees C) a district row may carry: one value inside each
\* of the ranges the key metrics distinguish, and each boundary 0, 4, 10.
TempVals == {-1, 0, 4, 10}

MeanCells == {NaN} \cup {Num(v) : v \in TempVals}

\* Department names, in the lexicographic order groupby sorts its keys by.
DeptOrder == <<"LORETO", "PUNO">>

DeptCells == {<<DeptOrder[i]>> : i \in 1..Len(DeptOrder)}

ColNames == {"mean", "DEPARTAMENTO", "departamento"}

None == [kind |-> "None"]

\* A parsed table: the columns of its header and its rows.  A row is a
\* record over ColNames; a column the header lacks holds NaN in every row
\* and is never read.
DataFrame(cols, rs) == [kind |-> "DataFrame", columns |-> cols, rows |-> rs]

len(df) == Len(df.rows)

RowsOver(cols) ==
    [mean : IF "mean" \in cols THEN MeanCells ELSE {NaN},
     DEPARTAMENTO : IF "DEPARTAMENTO" \in cols THEN DeptCells ELSE {NaN},
     departamento : IF "departamento" \in cols THEN DeptCells ELSE {NaN}]

SeqsUpTo(S, n) == UNION {[1..k -> S] : k \in 0..n}

\* Every MainTable of at most MaxRows rows over every header.
MainTables ==
    UNION {{DataFrame(cols, rs) : rs \in SeqsUpTo(RowsOver(cols), MaxRows)} :
           cols \in SUBSET ColNames}

(***************************************************************************)
(* pandas: Series reductions (NaN skipped), boolean-mask selection.        *)
(***************************************************************************)
\* df[col]: the column as a sequence of cells.
Column(df, col) == [i \in 1..Len(df.rows) |-> df.rows[i][col]]

\* Series.dropna()
dropna(s) == SelectSeq(s, LAMBDA c : ~IsNaN(c))

\* Series.count(): the number of non-NaN cells.
count(s) == Len(dropna(s))

RECURSIVE SumSeq(_)
SumSeq(s) == IF s = <<>> THEN 0 ELSE Val(Head(s)) + SumSeq(Tail(s))

RECURSIVE SumSq(_)
SumSq(s) == IF s = <<>> THEN 0 ELSE Val(Head(s)) * Val(Head(s)) + SumSq(Tail(s))

\* The nearest integer to 100 * num / den (den > 0): a value printed or
\* rounded to two decimals, in hundredths.  No tie arises for den <= 3.
Round2(num, den) == (200 * num + den) \div (2 * den)

\* Series.mean(), rounded to two decimals; NaN for no non-NaN cell.
mean2(s) ==
    LET v == dropna(s)
    IN  IF v = <<>> THEN NaN ELSE Num(Round2(SumSeq(v), Len(v)))

\* Series.min() / Series.max(): NaN for no non-NaN cell.
min(s) ==
    LET v == dropna(s)
    IN  IF v = <<>> THEN NaN
        ELSE Num(CHOOSE m \in {Val(v[i]) : i \in 1..Len(v)} :
                   \A i \in 1..Len(v) : m <= Val(v[i]))

max(s) ==
    LET v == dropna(s)
    IN  IF v = <<>> THEN NaN
        ELSE Num(CHOOSE m \in {Val(v[i]) : i \in 1..Len(v)} :
                   \A i \in 1..Len(v) : m >= Val(v[i]))

\* floor(sqrt(n)) by bisection on lo..hi (lo*lo <= n < (hi+1)*(hi+1)).
RECURSIVE ISqrtIn(_, _, _)
ISqrtIn(n, lo, hi) ==
    IF lo = hi THEN lo
    ELSE LET mid == (lo + hi + 1) \div 2
         IN  IF mid * mid <= n THEN ISqrtIn(n, mid, hi)
             ELSE ISqrtIn(n, lo, mid - 1)

\* (the upper end is capped where its square still fits the machine integer)
ISqrt(n) == ISqrtIn(n, 0, IF n < 46340 THEN n ELSE 46340)

\* The nearest integer to 100 * sqrt(num / den): floor((sqrt(40000 num/den)+1)/2).
SqrtRound2(num, den) == (ISqrt((40000 * num) \div den) + 1) \div 2

\* Series.std(ddof): sqrt(sum((x - mean)^2) / (n - ddof)), NaN unless
\* n - ddof > 0; in hundredths.
StdDdof(s, ddof) ==
    LET v == dropna(s)
        n == Len(v)
    IN  IF n - ddof <= 0 THEN NaN
        ELSE Num(SqrtRound2(n * SumSq(v) - SumSeq(v) * SumSeq(v), n * (n - ddof)))

StdPopulation(s) == StdDdof(s, 0)

\* The 'std' aggregation of groupby(...).agg: the sample standard deviation
\* (ddof = 1), NaN for fewer than two values.
std(s) == StdDdof(s, 1)

\* Comparisons of a cell with a number: every comparison with NaN is False.
Lt(c, x) == ~IsNaN(c) /\ Val(c) < x

Ge(c, x) == ~IsNaN(c) /\ Val(c) >= x

Gt(c, x) == ~IsNaN(c) /\ Val(c) > x

\* Comparison of a cell with a slider bound (itself a cell, NaN when the
\* column has no value).
GeCell(c, b) == ~IsNaN(c) /\ ~IsNaN(b) /\ Val(c) >= Val(b)

LeCell(c, b) == ~IsNaN(c) /\ ~IsNaN(b) /\ Val(c) <= Val(b)

LtCell(c, b) == ~IsNaN(c) /\ ~IsNaN(b) /\ Val(c) < Val(b)

RECURSIVE Masked(_, _)
Masked(rows, mask) ==
    IF rows = <<>> THEN <<>>
    ELSE (IF Head(mask) THEN <<Head(rows)>> ELSE <<>>) \o Masked(Tail(rows), Tail(mask))

\* df[mask]: the rows whose entry of the boolean Series mask is True, in
\* order, under the same header.
Select(df, mask) == DataFrame(df.columns, Masked(df.rows, mask))

\* Series.median(), to two decimals: the middle value, or the mean of the two
\* middle values; NaN for no non-NaN cell.
Kth(v, k) ==
    CHOOSE x \in {Val(v[i]) : i \in 1..Len(v)} :
        /\ Cardinality({i \in 1..Len(v) : Val(v[i]) < x}) < k
        /\ Cardinality({i \in 1..Len(v) : Val(v[i]) <= x}) >= k

median2(s) ==
    LET v == dropna(s)
        n == Len(v)
    IN  IF n = 0 THEN NaN
        ELSE IF n % 2 = 1 THEN Num(100 * Kth(v, (n + 1) \div 2))
        ELSE Num(Round2(Kth(v, n \div 2) + Kth(v, n \div 2 + 1), 2))

\* sort_values(): ascending by the entries' sort key `by` (a fraction
\* <<num, den>>, den > 0, or NaN), NaN last, entries of equal key left in
\* their order (numpy sorts arrays this small by insertion).
Before(a, b) ==
    /\ ~IsNaN(a.by)
    /\ IsNaN(b.by) \/ a.by[1] * b.by[2] < b.by[1] * a.by[2]

RECURSIVE InsertSorted(_, _)
InsertSorted(x, s) ==
    IF s = <<>> THEN <<x>>
    ELSE IF Before(x, Head(s)) THEN <<x>> \o s
    ELSE <<Head(s)>> \o InsertSorted(x, Tail(s))

RECURSIVE sort_values(_)
sort_values(s) ==
    IF s = <<>> THEN <<>>
    ELSE InsertSorted(s[Len(s)], sort_values(SubSeq(s, 1, Len(s) - 1)))

\* DataFrame.to_csv(index=False): the header, then one line per row holding
\* the cells of the header's columns (a NaN cell is written empty); no index
\* column.
to_csv(df) ==
    [header |-> df.columns,
     lines |-> [i \in 1..Len(df.rows) |-> [c \in df.columns |-> df.rows[i][c]]]]

(***************************************************************************)
(* The files.                                                              *)
(***************************************************************************)
\* The keys of load_data's `files` dict, in its iteration order.
Keys == <<"tabla_mapa", "frio", "calor">>

files ==
    [tabla_mapa |-> "tabla_mapa_tmin_2024.csv",
     frio |-> "ranking_top15_frio_2024.csv",
     calor |-> "ranking_top15_calor_2024.csv"]

KeySet == {Keys[i] : i \in 1..Len(Keys)}

\* The paths the script only tests for existence.
OtherPaths == {"static_map.png", "tmin_raster.tif", "recorte.tif"}

\* A CSV path on disk: missing, a file pd.read_csv parses into a table, or a
\* file pd.read_csv rejects (empty, undecodable, ragged).
Missing == [kind |-> "missing"]

Malformed == [kind |-> "malformed"]

Csv(df) == [kind |-> "csv", table |-> df]

\* os.path.exists(filename)
exists(d, k) == d[k].kind # "missing"

(***************************************************************************)
(* load_data and its st.cache_data wrapper.                                *)
(***************************************************************************)
\* The partial mapping `data` extended by one key.
Put(m, k, v) == [x \in (DOMAIN m) \cup {k} |-> IF x = k THEN v ELSE m[x]]

\* Faulty variant of the loop body: no existence test, so that reading a missing
\* file raises.
LoadOneNoExistsTest(d, k, acc) ==
    IF d[k].kind = "csv"
    THEN [acc EXCEPT !.value = Put(acc.value, k, d[k].table)]
    ELSE [acc EXCEPT !.raised = TRUE]

\* One iteration of load_data's loop for key k: an existing file is parsed
\* (pd.read_csv raises on a malformed one, and nothing catches it); a missing
\* one emits st.warning naming the file and stores None.
LoadOne(d, k, acc) ==
    IF exists(d, k)
    THEN IF d[k].kind = "malformed"
         THEN [acc EXCEPT !.raised = TRUE]
         ELSE [acc EXCEPT !.value = Put(acc.value, k, d[k].table)]
    ELSE [acc EXCEPT !.warnings = Append(acc.warnings, files[k]),
                     !.value = Put(acc.value, k, None)]

RECURSIVE LoadFrom(_, _, _)
LoadFrom(d, i, acc) ==
    IF i > Len(Keys) \/ acc.raised THEN acc
    ELSE LoadFrom(d, i + 1, LoadOne(d, Keys[i], acc))

\* load_data(): the mapping it returns, the warnings it emitted, and whether
\* it raised instead of returning.
load_data(d) == LoadFrom(d, 1, [raised |-> FALSE, value |-> <<>>, warnings |-> <<>>])

EmptyCache == [kind |-> "empty"]

\* Faulty variant of the wrapper: no memoization, every call reads the disk.
CachedNever(c, d) ==
    LET r == load_data(d)
    IN  [raised |-> r.raised, value |-> r.value, warnings |-> r.warnings,
         miss |-> TRUE,
         cache |-> IF r.raised THEN c
                   ELSE [kind |-> "hit", value |-> r.value, warnings |-> r.warnings]]

\* @st.cache_data applied to load_data (no arguments, no ttl): the first call
\* that returns stores the returned value together with the elements the
\* call emitted; every later call in the process returns the stored value
\* and replays the stored elements, without running the body.  A call that
\* raises stores nothing.
cached_load_data(c, d) ==
    IF c.kind = "hit"
    THEN [raised |-> FALSE, value |-> c.value, warnings |-> c.warnings,
          miss |-> FALSE, cache |-> c]
    ELSE LET r == load_data(d)
         IN  [raised |-> r.raised, value |-> r.value, warnings |-> r.warnings,
              miss |-> TRUE,
              cache |-> IF r.raised THEN c
                        ELSE [kind |-> "hit", value |-> r.value,
                              warnings |-> r.warnings]]

(***************************************************************************)
(* Page elements.                                                          *)
(***************************************************************************)
\* No element: the script skipped the call or never reached it.
NotRendered == [kind |-> "none"]

Metric(v) == [kind |-> "metric", value |-> v]

MetricDelta(v, d) == [kind |-> "metric", value |-> v, delta |-> d]

Info(n) == [kind |-> "info", value |-> n]

Slider(lo, hi, v) == [kind |-> "slider", min_value |-> lo, max_value |-> hi, value |-> v]

Image == [kind |-> "image"]

Warning(msg) == [kind |-> "warning", body |-> msg]

Error(msg) == [kind |-> "error", body |-> msg]

Table(t) == [kind |-> "dataframe", value |-> t]

Pyplot(fig) == [kind |-> "pyplot", figure |-> fig]

Download(name, bytes) == [kind |-> "download_button", file_name |-> name, data |-> bytes]

Markdown(body) == [kind |-> "markdown", body |-> body]

\* A name the script has not bound.
Unbound == [kind |-> "unbound"]

(***************************************************************************)
(* Sidebar: statistics, slider, threshold filter.                          *)
(***************************************************************************)
\* Faulty variant of the filter: the upper bound is exclusive.
FilterUpperExclusive(df_main, threshold) ==
    Select(df_main, [i \in 1..len(df_main) |->
                        /\ GeCell(df_main.rows[i].mean, threshold[1])
                        /\ LtCell(df_main.rows[i].mean, threshold[2])])

\* Faulty variant of the filter: rows without a temperature are kept.
FilterKeepsNaN(df_main, threshold) ==
    Select(df_main, [i \in 1..len(df_main) |->
                        \/ IsNaN(df_main.rows[i].mean)
                        \/ /\ GeCell(df_main.rows[i].mean, threshold[1])
                           /\ LeCell(df_main.rows[i].mean, threshold[2])])

\* df_main[(df_main['mean'] >= threshold[0]) & (df_main['mean'] <= threshold[1])]
threshold_filter(df_main, threshold) ==
    Select(df_main, [i \in 1..len(df_main) |->
                        /\ GeCell(df_main.rows[i].mean, threshold[1])
                        /\ LeCell(df_main.rows[i].mean, threshold[2])])

\* st.sidebar.slider(label, min_value, max_value, (min_value, max_value)):
\* the pair kept in the widget's state, or the default, the full range,
\* when the session has not moved the slider.  The call returns also when
\* the column holds no temperature (both bounds NaN) or a single one
\* (min_value = max_value): the script goes on with the default pair.
slider_value(lo, hi, w) == IF w = <<>> THEN <<lo, hi>> ELSE w

BlankSidebar ==
    [total |-> NotRendered, promedio |-> NotRendered, baja |-> NotRendered,
     alta |-> NotRendered, slider |-> NotRendered, showing |-> NotRendered,
     df_filtered |-> Unbound]

Sidebar(d, w) ==
    IF d["tabla_mapa"] = None THEN BlankSidebar
    ELSE LET df_main == d["tabla_mapa"]
         IN  IF "mean" \notin df_main.columns
             THEN [BlankSidebar EXCEPT !.total = Metric(len(df_main))]
             ELSE LET col == Column(df_main, "mean")
                      threshold == slider_value(min(col), max(col), w)
                      filtered == threshold_filter(df_main, threshold)
                  IN  [total |-> Metric(len(df_main)),
                       promedio |-> Metric(mean2(col)),
                       baja |-> Metric(min(col)),
                       alta |-> Metric(max(col)),
                       slider |-> Slider(min(col), max(col), threshold),
                       showing |-> Info(len(filtered)),
                       df_filtered |-> filtered]

(***************************************************************************)
(* Tab 1: map and rankings.                                                *)
(***************************************************************************)
BlankTab1 == [mapa |-> NotRendered, frio |-> NotRendered, calor |-> NotRendered]

Tab1(d, p) ==
    [mapa |-> IF "static_map.png" \in p THEN Image
              ELSE Warning("Imagen del mapa no encontrada: static_map.png"),
     frio |-> IF d["frio"] # None THEN Table(d["frio"])
              ELSE Error("No se pudo cargar el ranking de frio"),
     calor |-> IF d["calor"] # None THEN Table(d["calor"])
               ELSE Error("No se pudo cargar el ranking de calor")]

(***************************************************************************)
(* Tab 2: histogram, statistics by department, key metrics.                *)
(***************************************************************************)
\* Faulty variant of the tab's input: the slider-filtered rows.
StatsFromFiltered(d, filtered) == filtered

\* df_stats = data['tabla_mapa']: the unfiltered table, whatever the filter.
StatsSource(d, filtered) == d["tabla_mapa"]

\* The histogram's input and its two vertical lines.
Histogram(df_stats) ==
    LET col == Column(df_stats, "mean")
    IN  Pyplot([values |-> dropna(col), media |-> mean2(col), mediana |-> median2(col)])

\* The group keys of groupby(dept_col), sorted; and one group's 'mean' column.
GroupKeys(df_stats, dept_col) ==
    SelectSeq(DeptOrder,
              LAMBDA k : \E i \in 1..Len(df_stats.rows) : df_stats.rows[i][dept_col] = <<k>>)

GroupMeans(df_stats, dept_col, k) ==
    Column(Select(df_stats, [i \in 1..len(df_stats) |-> df_stats.rows[i][dept_col] = <<k>>]),
           "mean")

\* groupby(dept_col)['mean'].agg([mean, min, max, std, count]).round(2)
\*   .sort_values('Promedio')
dept_stats(df_stats, dept_col) ==
    LET keys == GroupKeys(df_stats, dept_col)
        agg(k) ==
            LET g == GroupMeans(df_stats, dept_col, k)
            IN  [key |-> k,
                 Promedio |-> mean2(g),
                 Minimo |-> min(g),
                 Maximo |-> max(g),
                 DesvEstandar |-> std(g),
                 NDistritos |-> count(g),
                 by |-> IF IsNaN(mean2(g)) THEN NaN ELSE <<Val(mean2(g)), 1>>]
    IN  sort_values([i \in 1..Len(keys) |-> agg(keys[i])])

\* groupby(dept_col)['mean'].mean().sort_values(): the bar chart's bars.
dept_means(df_stats, dept_col) ==
    LET keys == GroupKeys(df_stats, dept_col)
        bar(k) ==
            LET g == dropna(GroupMeans(df_stats, dept_col, k))
            IN  [key |-> k,
                 mean |-> mean2(g),
                 by |-> IF g = <<>> THEN NaN ELSE <<SumSeq(g), Len(g)>>]
    IN  sort_values([i \in 1..Len(keys) |-> bar(keys[i])])

\* f"{(n/total*100):.1f}%": in tenths of a percent (total > 0).
Percent1(n, total) == (2000 * n + total) \div (2 * total)

\* Faulty variant of the counts: the 4-10 range leaves out its lower boundary.
BucketsOpenAtFour(df_stats) ==
    LET m == Column(df_stats, "mean")
        n == len(df_stats)
    IN  [bajo_cero |-> len(Select(df_stats, [i \in 1..n |-> Lt(m[i], 0)])),
         bajo_4 |-> len(Select(df_stats, [i \in 1..n |-> Lt(m[i], 4)])),
         rango_frio |-> len(Select(df_stats, [i \in 1..n |-> Gt(m[i], 4) /\ Lt(m[i], 10)])),
         templado |-> len(Select(df_stats, [i \in 1..n |-> Ge(m[i], 10)]))]

\* The four counts of the key metrics: < 0, < 4, >= 4 and < 10, >= 10.
Buckets(df_stats) ==
    LET m == Column(df_stats, "mean")
        n == len(df_stats)
    IN  [bajo_cero |-> len(Select(df_stats, [i \in 1..n |-> Lt(m[i], 0)])),
         bajo_4 |-> len(Select(df_stats, [i \in 1..n |-> Lt(m[i], 4)])),
         rango_frio |-> len(Select(df_stats, [i \in 1..n |-> Ge(m[i], 4) /\ Lt(m[i], 10)])),
         templado |-> len(Select(df_stats, [i \in 1..n |-> Ge(m[i], 10)]))]

BlankTab2 ==
    [exception |-> "", hist |-> NotRendered, dept_stats |-> NotRendered,
     dept_means |-> NotRendered, bajo_cero |-> NotRendered, bajo_4 |-> NotRendered,
     rango_frio |-> NotRendered, templado |-> NotRendered]

Tab2(d, filtered) ==
    IF d["tabla_mapa"] = None THEN BlankTab2
    ELSE IF "mean" \notin d["tabla_mapa"].columns THEN BlankTab2
    ELSE LET df_stats == StatsSource(d, filtered)
             cols == df_stats.columns
             grouped == "DEPARTAMENTO" \in cols \/ "departamento" \in cols
             dept_col == IF "DEPARTAMENTO" \in cols THEN "DEPARTAMENTO" ELSE "departamento"
             b == Buckets(df_stats)
             n == len(df_stats)
             charts ==
                 [BlankTab2 EXCEPT
                    !.hist = Histogram(df_stats),
                    !.dept_stats = IF grouped THEN Table(dept_stats(df_stats, dept_col))
                                   ELSE NotRendered,
                    !.dept_means = IF grouped THEN Pyplot(dept_means(df_stats, dept_col))
                                   ELSE NotRendered]
         IN  \* bajo_cero/len(df_stats) divides by zero on a table without rows
             IF n = 0 THEN [charts EXCEPT !.exception = "ZeroDivisionError"]
             ELSE [charts EXCEPT
                     !.bajo_cero = MetricDelta(b.bajo_cero, Percent1(b.bajo_cero, n)),
                     !.bajo_4 = MetricDelta(b.bajo_4, Percent1(b.bajo_4, n)),
                     !.rango_frio = MetricDelta(b.rango_frio, Percent1(b.rango_frio, n)),
                     !.templado = MetricDelta(b.templado, Percent1(b.templado, n))]

(***************************************************************************)
(* Tab 4: data and downloads.                                              *)
(***************************************************************************)
BlankTab4 ==
    [tabla |-> NotRendered, csv |-> NotRendered, csv_frio |-> NotRendered,
     csv_calor |-> NotRendered, raster_info |-> NotRendered, metadatos |-> NotRendered]

Tab4(d, p) ==
    LET raster_info ==
            (IF "tmin_raster.tif" \in p THEN {"tmin_raster.tif - Raster completo"} ELSE {})
            \cup (IF "recorte.tif" \in p THEN {"recorte.tif - Raster recortado"} ELSE {})
    IN  [tabla |-> IF d["tabla_mapa"] # None THEN Table(d["tabla_mapa"]) ELSE NotRendered,
         csv |-> IF d["tabla_mapa"] # None
                 THEN Download("tabla_completa_tmin_2024.csv", to_csv(d["tabla_mapa"]))
                 ELSE NotRendered,
         csv_frio |-> IF d["frio"] # None
                      THEN Download("ranking_frio_2024.csv", to_csv(d["frio"]))
                      ELSE NotRendered,
         csv_calor |-> IF d["calor"] # None
                       THEN Download("ranking_calor_2024.csv", to_csv(d["calor"]))
                       ELSE NotRendered,
         raster_info |-> IF raster_info # {} THEN Markdown(raster_info)
                         ELSE Warning("No se encontraron archivos raster"),
         metadatos |-> Markdown(IF d["tabla_mapa"] # None
                                THEN <<len(d["tabla_mapa"])>> ELSE <<>>)]

(***************************************************************************)
(* One run of the script, top to bottom.                                   *)
(***************************************************************************)
SidebarElements(sb) == [f \in (DOMAIN sb) \ {"df_filtered"} |-> sb[f]]

BlankPage ==
    [exception |-> "", warnings |-> <<>>, sidebar |-> SidebarElements(BlankSidebar),
     tab1 |-> BlankTab1, tab2 |-> BlankTab2, tab4 |-> BlankTab4]

\* The run over disk d, paths p, cache entry c and slider state w: an
\* uncaught exception ends the run, leaving the elements rendered before it.
Script(d, p, c, w) ==
    LET ld == cached_load_data(c, d)
    IN  IF ld.raised
        THEN [cache |-> ld.cache, miss |-> ld.miss, data |-> Unbound,
              df_filtered |-> Unbound,
              page |-> [BlankPage EXCEPT !.exception = "ParserError",
                                         !.warnings = ld.warnings]]
        ELSE LET sb == Sidebar(ld.value, w)
                 t2 == Tab2(ld.value, sb.df_filtered)
             IN  [cache |-> ld.cache, miss |-> ld.miss, data |-> ld.value,
                  df_filtered |-> sb.df_filtered,
                  page |-> [exception |-> t2.exception,
                            warnings |-> ld.warnings,
                            sidebar |-> SidebarElements(sb),
                            tab1 |-> Tab1(ld.value, p),
                            tab2 |-> t2,
                            tab4 |-> IF t2.exception = "" THEN Tab4(ld.value, p)
                                     ELSE BlankTab4]]

(***************************************************************************)
(* Inputs.                                                                 *)
(***************************************************************************)
Row(m, D, d) == [mean |-> m, DEPARTAMENTO |-> D, departamento |-> d]

\* Sample contents of tabla_mapa_tmin_2024.csv: the expected header, and a
\* header without `mean`.
MainFull ==
    DataFrame({"mean", "DEPARTAMENTO"},
              <<Row(Num(0), <<"PUNO">>, NaN), Row(Num(4), <<"LORETO">>, NaN)>>)

MainNoMean == DataFrame({"departamento"}, <<Row(NaN, NaN, <<"PUNO">>)>>)

SampleMain == {MainFull, MainNoMean}

\* Sample contents of a ranking file.
RankA == DataFrame({"mean"}, <<Row(Num(-1), NaN, NaN)>>)

RankB == DataFrame({"mean"}, <<Row(Num(10), NaN, NaN), Row(Num(4), NaN, NaN)>>)

FileStates(k) ==
    {Missing, Malformed}
    \cup {Csv(t) : t \in IF k = "tabla_mapa" THEN SampleMain
                         ELSE IF k = "frio" THEN {RankA} ELSE {RankB}}

\* Positions the slider can be put on: the temperatures of the data and
\* points between them.
Stops == {-1, 0, 2, 4, 10}

(***************************************************************************)
(* State machine.                                                          *)
(***************************************************************************)
Started ==
    /\ cache = EmptyCache
    /\ widget = <<>>
    /\ data = Unbound
    /\ df_filtered = Unbound
    /\ page = BlankPage
    /\ event = [name |-> "start", miss |-> FALSE]

\* A freshly started process over any disk.
Init ==
    /\ disk \in [KeySet -> UNION {FileStates(k) : k \in KeySet}]
    /\ \A k \in KeySet : disk[k] \in FileStates(k)
    /\ paths \in SUBSET OtherPaths
    /\ Started

\* A freshly started process over every MainTable, all other files present.
InitRender ==
    /\ disk \in {[tabla_mapa |-> Csv(t), frio |-> Csv(RankA), calor |-> Csv(RankB)] :
                 t \in MainTables}
    /\ paths = OtherPaths
    /\ Started

\* The script runs with slider state w.  A widget the run does not render
\* loses its state.
RunScript(w) ==
    \E r \in {Script(disk, paths, cache, w)} :
        /\ cache' = r.cache
        /\ data' = r.data
        /\ df_filtered' = r.df_filtered
        /\ page' = r.page
        /\ widget' = IF r.page.sidebar.slider = NotRendered THEN <<>> ELSE w
        /\ event' = [name |-> "run", miss |-> r.miss]
        /\ UNCHANGED <<disk, paths>>

\* The session reruns the script (a rerun request, any interaction).
Rerun == RunScript(widget)

\* A browser session connects: widgets at their defaults, the process's
\* cache as it is.
NewSession == RunScript(<<>>)

\* The user moves the slider shown on the page to [lo, hi]; Streamlit reruns
\* the script.
SliderMove ==
    /\ page.sidebar.slider # NotRendered
    /\ ~IsNaN(page.sidebar.slider.min_value)
    /\ \E lo, hi \in {v \in Stops : /\ Val(page.sidebar.slider.min_value) <= v
                                    /\ v <= Val(page.sidebar.slider.max_value)} :
          /\ lo <= hi
          /\ RunScript(<<Num(lo), Num(hi)>>)

Environment == [name |-> "env", miss |-> FALSE]

\* A CSV file is created or overwritten.
WriteFile ==
    \E k \in KeySet : \E f \in FileStates(k) \ {Missing, disk[k]} :
        /\ disk' = [disk EXCEPT ![k] = f]
        /\ event' = Environment
        /\ UNCHANGED <<paths, cache, widget, data, df_filtered, page>>

\* A CSV file is deleted.
DeleteFile ==
    \E k \in KeySet :
        /\ exists(disk, k)
        /\ disk' = [disk EXCEPT ![k] = Missing]
        /\ event' = Environment
        /\ UNCHANGED <<paths, cache, widget, data, df_filtered, page>>

\* The map image is created or deleted.  (The raster files are as the
\* process found them.)
ToggleMap ==
    \E q \in {"static_map.png"} :
        /\ paths' = IF q \in paths THEN paths \ {q} ELSE paths \cup {q}
        /\ event' = Environment
        /\ UNCHANGED <<disk, cache, widget, data, df_filtered, page>>

\* The process is restarted: the cache and every session are gone.
Restart ==
    /\ cache' = EmptyCache
    /\ widget' = <<>>
    /\ data' = Unbound
    /\ df_filtered' = Unbound
    /\ page' = BlankPage
    /\ event' = [name |-> "start", miss |-> FALSE]
    /\ UNCHANGED <<disk, paths>>

Next == Rerun \/ NewSession \/ SliderMove \/ WriteFile \/ DeleteFile \/ ToggleMap \/ Restart

Spec == Init /\ [][Next]_vars

NextRender == Rerun \/ NewSession \/ SliderMove

SpecRender == InitRender /\ [][NextRender]_vars

(***************************************************************************)
(* Properties.                                                             *)
(***************************************************************************)
\* The state is the outcome of a script run (the disk is as the run saw it).
Ran == event.name = "run"

Loaded == Ran /\ data # Unbound

MainLoaded == Loaded /\ data["tabla_mapa"] # None

HasMean == MainLoaded /\ "mean" \in data["tabla_mapa"].columns

Occ(s, r) == Cardinality({i \in 1..Len(s) : s[i] = r})

Range(s) == {s[i] : i \in 1..Len(s)}

Warned == Range(page.warnings)

IsNotice(e) == e.kind \in {"warning", "error"}

\* C1: a run of load_data's body raises only if some existing file is
\* malformed, never because a file is missing; when no existing file is
\* malformed it returns a mapping with exactly the three keys, in which each
\* missing file's key holds None and the file is named in a warning, and
\* each existing file's key holds that file's parsed table, without warning.
C1_MissingFileTolerated ==
    (Ran /\ event.miss) =>
        /\ data = Unbound => \E k \in KeySet : disk[k].kind = "malformed"
        /\ (\A k \in KeySet : disk[k].kind # "malformed") =>
              /\ data # Unbound
              /\ DOMAIN data = KeySet
              /\ \A k \in KeySet :
                    IF disk[k].kind = "missing"
                    THEN data[k] = None /\ files[k] \in Warned
                    ELSE data[k] = disk[k].table /\ files[k] \notin Warned

\* C1 witness: frio missing, the two other files loaded.
C1_Witness ==
    /\ Ran /\ event.miss /\ data # Unbound
    /\ disk["frio"] = Missing
    /\ data["frio"] = None
    /\ data["tabla_mapa"] = MainFull
    /\ data["calor"] = RankB
    /\ Warned = {files["frio"]}

InInterval(r, lo, hi) == ~IsNaN(r.mean) /\ lo <= Val(r.mean) /\ Val(r.mean) <= hi

\* C2: for every slider interval [lo, hi], lo <= hi, the filtered table
\* holds exactly the rows of MainTable whose mean v has lo <= v <= hi (each
\* as often as MainTable holds it, no other row), MainTable is still the
\* table read from the file, and the count shown is the number of those rows.
C2_FilterExact ==
    (HasMean /\ ~IsNaN(page.sidebar.slider.value[1])
             /\ Val(page.sidebar.slider.value[1]) <= Val(page.sidebar.slider.value[2])) =>
        LET main == data["tabla_mapa"]
            lo == Val(page.sidebar.slider.value[1])
            hi == Val(page.sidebar.slider.value[2])
        IN  /\ main = disk["tabla_mapa"].table
            /\ df_filtered.columns = main.columns
            /\ \A r \in Range(main.rows) \cup Range(df_filtered.rows) :
                  Occ(df_filtered.rows, r) =
                      IF InInterval(r, lo, hi) THEN Occ(main.rows, r) ELSE 0
            /\ page.sidebar.showing =
                  Info(Cardinality({i \in 1..len(main) : InInterval(main.rows[i], lo, hi)}))

\* C2 witness: a single-point interval that keeps one row and drops another.
C2_Witness ==
    /\ HasMean
    /\ widget # <<>>
    /\ widget[1] = widget[2]
    /\ len(df_filtered) = 1
    /\ len(data["tabla_mapa"]) = 2

\* The slider stands on the full observed range [min, max] of a column that
\* holds at least one temperature.
FullRange ==
    /\ HasMean
    /\ ~IsNaN(page.sidebar.slider.min_value)
    /\ page.sidebar.slider.value =
          <<page.sidebar.slider.min_value, page.sidebar.slider.max_value>>

\* C3 as stated: over the full range [min, max] the filter returns all rows
\* of MainTable and the count shown equals the total district count.
C3_Original ==
    FullRange =>
        /\ df_filtered = data["tabla_mapa"]
        /\ page.sidebar.showing.value = page.sidebar.total.value

\* C3 amended: over the full range [min, max] the filter returns exactly the
\* rows of MainTable whose mean is not missing, in their order; the count
\* shown equals the total district count exactly when no mean is missing.
C3_FullRangeKeepsValued ==
    FullRange =>
        /\ df_filtered.rows = SelectSeq(data["tabla_mapa"].rows, LAMBDA r : ~IsNaN(r.mean))
        /\ page.sidebar.showing.value = page.sidebar.total.value
              <=> \A i \in 1..len(data["tabla_mapa"]) : ~IsNaN(data["tabla_mapa"].rows[i].mean)

\* C3 witness: the default interval over two rows of different temperature,
\* both returned.
C3_Witness ==
    /\ FullRange
    /\ widget = <<>>
    /\ len(data["tabla_mapa"]) = 2
    /\ page.sidebar.slider.min_value # page.sidebar.slider.max_value
    /\ df_filtered = data["tabla_mapa"]

MetricsShown == Ran /\ page.tab2.templado # NotRendered

\* C4 as stated: the four counts shown partition the rows, so they sum to
\* the total row count.
C4_Original ==
    MetricsShown =>
        page.tab2.bajo_cero.value + page.tab2.bajo_4.value
            + page.tab2.rango_frio.value + page.tab2.templado.value
        = len(data["tabla_mapa"])

\* C4 amended: the four counts shown are those of the ranges (-inf, 0),
\* (-inf, 4), [4, 10), [10, +inf).  The first lies inside the second; the
\* last three do not overlap and every row with a mean lies in exactly one
\* of them, so they sum to the number of rows whose mean is not missing.
C4_BucketRanges ==
    MetricsShown =>
        LET main == data["tabla_mapa"]
            t2 == page.tab2
            v(i) == Val(main.rows[i].mean)
            valued == {i \in 1..len(main) : ~IsNaN(main.rows[i].mean)}
        IN  /\ t2.bajo_cero.value = Cardinality({i \in valued : v(i) < 0})
            /\ t2.bajo_4.value = Cardinality({i \in valued : v(i) < 4})
            /\ t2.rango_frio.value = Cardinality({i \in valued : 4 <= v(i) /\ v(i) < 10})
            /\ t2.templado.value = Cardinality({i \in valued : 10 <= v(i)})
            /\ t2.bajo_cero.value <= t2.bajo_4.value
            /\ t2.bajo_4.value + t2.rango_frio.value + t2.templado.value
                  = Cardinality(valued)

\* C4 witness: a row below zero, counted under "< 0" and under "< 4", beside
\* a row at 4 degrees.
C4_Witness ==
    /\ MetricsShown
    /\ page.tab2.bajo_cero.value = 1
    /\ page.tab2.bajo_4.value = 1
    /\ page.tab2.rango_frio.value = 1
    /\ len(data["tabla_mapa"]) = 2

DeptColumn(df) == IF "DEPARTAMENTO" \in df.columns THEN "DEPARTAMENTO" ELSE "departamento"

StatsShown == Ran /\ page.tab2.dept_stats # NotRendered

\* The rows of MainTable under region key k.
RowsOfKey(k) ==
    {i \in 1..len(data["tabla_mapa"]) :
        data["tabla_mapa"].rows[i][DeptColumn(data["tabla_mapa"])] = <<k>>}

\* C5 as stated: each group's count equals the number of MainTable rows
\* with the group's key, and every key of MainTable is exactly one group.
C5_GroupCountIsRowCount ==
    StatsShown =>
        LET groups == page.tab2.dept_stats.value
        IN  /\ \A j \in 1..Len(groups) :
                  groups[j].NDistritos = Cardinality(RowsOfKey(groups[j].key))
            /\ \A k \in Range(DeptOrder) :
                  RowsOfKey(k) # {} =>
                      Cardinality({j \in 1..Len(groups) : groups[j].key = k}) = 1

\* C6 as stated: every section whose data is absent shows a warning or an
\* error: the two rankings, the map, the statistical analysis, the full
\* table with its download.
C6_AbsentDataHasNotice ==
    Loaded =>
        /\ data["frio"] = None => IsNotice(page.tab1.frio)
        /\ data["calor"] = None => IsNotice(page.tab1.calor)
        /\ "static_map.png" \notin paths => IsNotice(page.tab1.mapa)
        /\ data["tabla_mapa"] = None =>
              /\ \E f \in (DOMAIN page.tab2) \ {"exception"} : IsNotice(page.tab2[f])
              /\ IsNotice(page.tab4.tabla) \/ IsNotice(page.tab4.csv)

\* C7: once load_data has returned in a process, nothing but a restart of
\* the process changes the memoized mapping, and every later run uses it
\* without running load_data's body, whatever happened to the files.
C7_CacheStable ==
    [][(cache.kind = "hit" /\ event'.name # "start") =>
          /\ cache' = cache
          /\ event'.name = "run" => data' = cache.value /\ ~event'.miss]_vars

\* C7 witness: a run served from the cache while tabla_mapa's file is gone
\* and frio's file, missing at load time, now exists.
C7_Witness ==
    /\ Ran /\ ~event.miss /\ data # Unbound
    /\ data["tabla_mapa"] = MainFull
    /\ disk["tabla_mapa"] = Missing
    /\ data["frio"] = None
    /\ disk["frio"] = Csv(RankA)

Rendered(e) == e # NotRendered

\* C8 as stated: without `mean` only its dependents are skipped, without
\* error, and the total, the full table and the downloads render; with
\* `mean` and no department column only the regional aggregate and its bar
\* chart are skipped, the histogram and the key metrics render.
C8_MissingColumnSkipsDependentsOnly ==
    MainLoaded =>
        LET cols == data["tabla_mapa"].columns
            sb == page.sidebar
            t2 == page.tab2
        IN  /\ "mean" \notin cols =>
                  /\ page.exception = ""
                  /\ ~Rendered(sb.promedio) /\ ~Rendered(sb.baja) /\ ~Rendered(sb.alta)
                  /\ ~Rendered(sb.slider) /\ ~Rendered(sb.showing)
                  /\ ~Rendered(t2.hist) /\ ~Rendered(t2.dept_stats) /\ ~Rendered(t2.templado)
                  /\ sb.total = Metric(len(data["tabla_mapa"]))
                  /\ page.tab4.tabla = Table(data["tabla_mapa"])
                  /\ Rendered(page.tab4.csv) /\ Rendered(page.tab4.csv_frio)
                  /\ Rendered(page.tab4.csv_calor)
            /\ ("mean" \in cols /\ cols \cap {"DEPARTAMENTO", "departamento"} = {}) =>
                  /\ page.exception = ""
                  /\ ~Rendered(t2.dept_stats) /\ ~Rendered(t2.dept_means)
                  /\ Rendered(t2.hist)
                  /\ Rendered(t2.bajo_cero) /\ Rendered(t2.bajo_4)
                  /\ Rendered(t2.rango_frio) /\ Rendered(t2.templado)

\* C9: when a region has exactly one row, the run ends without exception
\* and the region's line of the aggregate carries an undefined (NaN)
\* standard deviation, not zero, beside the row's temperature as mean,
\* minimum and maximum and the count of its temperatures.
C9_SingleRowGroupStdUndefined ==
    (HasMean /\ data["tabla_mapa"].columns \cap {"DEPARTAMENTO", "departamento"} # {}) =>
        \A k \in Range(DeptOrder) :
            Cardinality(RowsOfKey(k)) = 1 =>
                LET row == data["tabla_mapa"].rows[CHOOSE i \in RowsOfKey(k) : TRUE]
                    groups == page.tab2.dept_stats.value
                IN  /\ page.exception = ""
                    /\ StatsShown
                    /\ \E j \in 1..Len(groups) :
                          /\ groups[j].key = k
                          /\ IsNaN(groups[j].DesvEstandar)
                          /\ groups[j].DesvEstandar # Num(0)
                          /\ groups[j].Minimo = row.mean
                          /\ groups[j].Maximo = row.mean
                          /\ groups[j].Promedio =
                                IF IsNaN(row.mean) THEN NaN ELSE Num(100 * Val(row.mean))
                          /\ groups[j].NDistritos = IF IsNaN(row.mean) THEN 0 ELSE 1

\* C9 witness: two regions of one row each, both with undefined deviation.
C9_Witness ==
    /\ StatsShown
    /\ Len(page.tab2.dept_stats.value) = 2
    /\ \A j \in 1..2 : /\ IsNaN(page.tab2.dept_stats.value[j].DesvEstandar)
                       /\ page.tab2.dept_stats.value[j].NDistritos = 1

\* C10: two consecutive runs over the same loaded tables render the same
\* page but for the slider's position and the "showing N" count: the three
\* tabs, with histogram, aggregate, key metrics, full table and downloads,
\* and the sidebar statistics do not depend on the interval.
C10_SliderOnlyChangesShowing ==
    [][(Ran /\ event'.name = "run" /\ data' = data) =>
          /\ page'.tab1 = page.tab1
          /\ page'.tab2 = page.tab2
          /\ page'.tab4 = page.tab4
          /\ page'.exception = page.exception
          /\ page'.warnings = page.warnings
          /\ \A f \in (DOMAIN page.sidebar) \ {"slider", "showing"} :
                page'.sidebar[f] = page.sidebar[f]]_vars

\* C10 witness: the slider narrowed to drop a row, the histogram still over
\* both rows.
C10_Witness ==
    /\ HasMean
    /\ widget # <<>>
    /\ len(df_filtered) = 1
    /\ Len(page.tab2.hist.figure.values) = 2
    /\ page.tab2.templado # NotRendered

====
